---- MODULE Spec2Model ----
(***************************************************************************)
(* Device Supervisor of SI12 (src/backend/devices.py, MassiqueManager)     *)
(* as a state machine of two threads: the caller's thread ("api"), which   *)
(* runs one manager method at a time, and the polling thread ("poller"),   *)
(* started by connect().  A step is a block of statements of one thread    *)
(* that the model runs atomically.  The code holds no lock around record   *)
(* fields, so every read-modify-write of a shared field that another       *)
(* thread also writes is split into its read and its write.  Each          *)
(* specification names the positions at which a thread may be preempted.   *)
(*                                                                         *)
(* Numbers: setpoints, full scales and percentages are integers (the       *)
(* inputs are chosen so that consigne / full_scale * 100 is exact); ramp   *)
(* times are in tenths of a second (10 is 1.0 s).  History entries keep    *)
(* the value of the (value, now) pair; the timestamp is not modelled.      *)
(***************************************************************************)
EXTENDS Integers, Sequences, FiniteSets, TLC

VARIABLES
    serial_port,    \* "none" | "open": self.serial_port (None, or an open port)
    serial_lock,    \* "free" or the thread that holds self.serial_lock
    devices,        \* self.devices: channel index -> DeviceState
    mfc_objs,       \* self._mfc_objs: channel index -> TRUE iff a binding is stored
    poll_stop,      \* self._poll_stop (threading.Event)
    th,             \* thread -> its position and locals
    stale,          \* the binding the poller holds belongs to a port closed since
    bus,            \* the last Driver call of the exchange in progress (NoCall: none)
    result,         \* the current or last call of the api thread and how it ended
    cycles          \* poll cycles begun (bounded by MaxCycles)

vars == <<serial_port, serial_lock, devices, mfc_objs, poll_stop, th, stale,
          bus, result, cycles>>

(***************************************************************************)
(* Sizes                                                                   *)
(***************************************************************************)
\* Channels of the manager instance (MassiqueManager(tags, max_devices)).
max_devices == 2
\* Length kept by the history slice [-3600:], scaled down.
HistCap == 2
\* Gas identifiers probed by activate (range(1, 5) in the code), scaled down.
MaxGas == 1
\* Poll cycles the poller may begin in one run of the model.
MaxCycles == 1

Dev == 0 .. (max_devices - 1)
Threads == {"api", "poller"}

(***************************************************************************)
(* DeviceState                                                             *)
(***************************************************************************)
NoGas == 0
Sentinel == <<0, "N/A">>
NoValve == "N/A"
EmptyMap == [n \in {} |-> 0]

DeviceState ==
    [active |-> FALSE, selected_gas |-> NoGas,
     available_gases |-> <<>>, gas_map |-> EmptyMap,
     consigne |-> 0, full_scale_value |-> 0,
     mesure |-> Sentinel, temperature |-> Sentinel, full_scale |-> Sentinel,
     totalization_value |-> Sentinel, valve_command |-> NoValve,
     ramp_active |-> FALSE, ramp_time_s |-> 10,
     measurements |-> <<>>, consigne_points |-> <<>>]

\* _reset_data(d)
ResetData(d) ==
    [d EXCEPT !.mesure = Sentinel, !.temperature = Sentinel,
              !.full_scale = Sentinel, !.valve_command = NoValve,
              !.measurements = <<>>, !.consigne_points = <<>>,
              !.totalization_value = Sentinel]

\* s[-3600:] with the cap scaled to HistCap
LastN(s, n) == IF Len(s) <= n THEN s ELSE SubSeq(s, Len(s) - n + 1, Len(s))
Appended(s, e) == LastN(Append(s, e), HistCap)

\* the clamp of send_consigne (lines 197-200)
Clamp(c, fsv) ==
    LET c0 == IF c < 0 THEN 0 ELSE c
    IN  IF fsv # 0 /\ c0 > fsv THEN fsv ELSE c0

\* perc = (d.consigne / d.full_scale_value) * 100.0
Perc(c, fsv) == (c * 100) \div fsv

\* {"Ouverture": 1, "Fermeture": 2, "Régulation": 0}.get(action); -1 is None
ValveCmd(action) ==
    CASE action = "Ouverture" -> 1
      [] action = "Fermeture" -> 2
      [] action = "Regulation" -> 0
      [] OTHER -> -1

\* The name the Driver reports for a gas identifier.
GasName(g) == IF g = 1 THEN "N2" ELSE IF g = 2 THEN "Ar" ELSE "Gas"

\* _get(idx): the index is in range
InRange(idx) == 0 <= idx /\ idx < max_devices

\* bool(self.serial_port and self.serial_port.is_open)
Connected == serial_port = "open"

\* snapshot(): the view of one channel
View(d) ==
    [active |-> d.active, consigne |-> d.consigne,
     full_scale_value |-> d.full_scale_value,
     mesure |-> d.mesure, total |-> d.totalization_value,
     valve |-> d.valve_command,
     ramp |-> <<d.ramp_active, d.ramp_time_s>>,
     gases |-> d.available_gases, selected_gas |-> d.selected_gas]

(***************************************************************************)
(* Threads                                                                 *)
(***************************************************************************)
\* pc: position; op: the method being run; idx: its channel; arg: its
\* numeric argument; perc: the percentage send_consigne computed; buf: the
\* history list read at line 213 / 321; ret: where send_consigne,
\* set_vanne or apply_ramp_settings returns to; g: the gas being probed.
\* flag: the ramp_active argument (api), or "lines 307-309 changed the
\* channel's view" (poller); ans: what the poll's exchange read.
\* fs0: the channel's full_scale_value when the api thread's call of
\* send_consigne began (what the caller knew; no statement reads it).
NoAnswer ==
    [fr |-> Sentinel, tmp |-> Sentinel, fs |-> Sentinel, tot |-> Sentinel,
     valve |-> NoValve]
Idle ==
    [pc |-> "idle", op |-> "none", idx |-> 0, arg |-> 0, perc |-> 0,
     buf |-> <<>>, ret |-> "none", g |-> 0, flag |-> FALSE, ans |-> NoAnswer,
     fs0 |-> 0]
Dead == [Idle EXCEPT !.pc = "dead"]

NoCall == [by |-> "none", idx |-> 0, call |-> "none", arg |-> 0]

\* out: "running", "ok", or the exception the call raised; after: for
\* deactivate(idx), "activate" when the call before it was an activate(idx)
\* that returned normally; x: <<v>> for send_consigne(idx, v) with a
\* numeric v, else empty
NoResult == [op |-> "none", idx |-> 0, out |-> "none", after |-> "none", x |-> <<>>]

Init ==
    /\ serial_port = "none"
    /\ serial_lock = "free"
    /\ devices = [i \in Dev |-> DeviceState]
    /\ mfc_objs = [i \in Dev |-> FALSE]
    /\ poll_stop = FALSE
    /\ th = [t \in Threads |-> IF t = "api" THEN Idle ELSE Dead]
    /\ stale = FALSE
    /\ bus = NoCall
    /\ result = NoResult
    /\ cycles = 0
(***************************************************************************)
(* Control flow shared by the methods                                      *)
(***************************************************************************)
Dv(t) == devices[th[t].idx]

\* _need_mfc(idx) passes: the channel is active and a binding is stored
HasMfc(i) == devices[i].active /\ mfc_objs[i]

\* (a lock that never blocks)
LockAvailableBroken == TRUE

\* self.serial_lock can be taken (threading.Lock is not reentrant)
LockAvailable == serial_lock = "free"

\* the position after each "with self.serial_lock:"
AfterAcquire ==
    [sc_acq |-> "sc_wr", v_acq |-> "v_set", r_acq |-> "r_ctl",
     t_acq |-> "t_wr", g_acq |-> "g_sel", a_acq_addr |-> "a_addr",
     a_acq_gas |-> "a_selgaz", a_acq_first |-> "a_first",
     a_acq_tot |-> "a_tot", d_acq |-> "d_ramp", p_acq |-> "p_r1"]

\* the positions inside a "with self.serial_lock:" block
InBlock ==
    {"sc_wr", "v_set", "v_read", "r_ctl", "r_lin", "t_wr", "g_sel", "a_addr",
     "a_selgaz", "a_selnom", "a_first", "a_tot", "d_ramp",
     "p_r1", "p_r2", "p_r3", "p_r4", "p_r5"}

\* (an exception of _poll_one that ends the poll thread)
PollNextStops(r) == Dead

\* the poller moves on to the next channel of its cycle (line 278)
PollNext(r) == [Idle EXCEPT !.pc = "p_chk", !.op = "poll", !.idx = r.idx + 1]

\* a Driver call by thread t on its channel
Call(t, name, a) ==
    bus' = [by |-> t, idx |-> th[t].idx, call |-> name, arg |-> a]

\* the with block ends: the exchange is over and the lock is released
Release == serial_lock' = "free" /\ bus' = NoCall

\* Where the api thread goes on when a call made by activate or deactivate
\* returns: line 157 set_vanne(idx, "Regulation"), line 158
\* send_consigne(idx, 0.0), lines 172-173 sleep and take the lock.
Continue(r) ==
    LET base == [Idle EXCEPT !.op = r.op, !.idx = r.idx]
    IN  CASE r.ret = "a_vanne" ->
               [base EXCEPT !.pc = "v_chk", !.arg = ValveCmd("Regulation"),
                            !.ret = "a_consigne"]
          [] r.ret = "a_consigne" ->
               [base EXCEPT !.pc = "sc_chk", !.arg = 0, !.ret = "done"]
          [] r.ret = "d_sleep" -> [base EXCEPT !.pc = "d_acq"]

\* The method (or the sub-call) of thread t returns normally.
Return(t) ==
    LET r == th[t]
    IN  IF t = "poller"
        THEN th' = [th EXCEPT ![t] = PollNext(r)] /\ UNCHANGED result
        ELSE IF r.ret = "done"
        THEN th' = [th EXCEPT ![t] = Idle] /\ result' = [result EXCEPT !.out = "ok"]
        ELSE th' = [th EXCEPT ![t] = Continue(r)] /\ UNCHANGED result

\* An exception e leaves the current statement of thread t: the lock is
\* released by the with statement, and the enclosing handler runs:
\*   activate (lines 160-164) rolls back and re-raises;
\*   deactivate (175-176) swallows and goes on to line 177;
\*   _poll_loop (284-285) resets the channel's data and goes on;
\*   the lazy apply of _poll_one (328-329) swallows;
\*   any other method lets it reach the caller.
Raise(t, e) ==
    LET r == th[t]
        i == r.idx
    IN  /\ serial_lock' = IF serial_lock = t THEN "free" ELSE serial_lock
        /\ bus' = IF serial_lock = t THEN NoCall ELSE bus
        /\ CASE t = "api" /\ r.op = "activate" ->
                  /\ devices' = [devices EXCEPT ![i].active = FALSE]
                  /\ mfc_objs' = [mfc_objs EXCEPT ![i] = FALSE]
                  /\ th' = [th EXCEPT ![t] = Idle]
                  /\ result' = [result EXCEPT !.out = e]
             [] t = "api" /\ r.op = "deactivate" ->
                  /\ th' = [th EXCEPT ![t] = [Idle EXCEPT !.pc = "d_end", !.op = r.op,
                                                         !.idx = r.idx]]
                  /\ UNCHANGED <<devices, mfc_objs, result>>
             [] t = "api" /\ r.op \notin {"activate", "deactivate"} ->
                  /\ th' = [th EXCEPT ![t] = Idle]
                  /\ result' = [result EXCEPT !.out = e]
                  /\ UNCHANGED <<devices, mfc_objs>>
             [] t = "poller" /\ r.op = "poll" ->
                  /\ devices' = [devices EXCEPT ![i] = ResetData(@)]
                  /\ th' = [th EXCEPT ![t] = PollNext(r)]
                  /\ UNCHANGED <<mfc_objs, result>>
             [] t = "poller" /\ r.op = "lazy" ->
                  /\ th' = [th EXCEPT ![t] = PollNext(r)]
                  /\ UNCHANGED <<devices, mfc_objs, result>>

\* with self.serial_lock: (blocks while another thread holds the lock)
Acquire(t) ==
    /\ th[t].pc \in DOMAIN AfterAcquire
    /\ LockAvailable
    /\ serial_lock' = t
    /\ th' = [th EXCEPT ![t].pc = AfterAcquire[th[t].pc]]
    /\ UNCHANGED <<serial_port, devices, mfc_objs, poll_stop, stale, bus, result, cycles>>

(***************************************************************************)
(* send_consigne (lines 188-213), run by either thread                     *)
(***************************************************************************)
\* lines 189-202: _need_mfc, clamp, d.consigne = c
SendConsigneStore(t) ==
    /\ th[t].pc = "sc_chk"
    /\ IF ~HasMfc(th[t].idx)
       THEN Raise(t, "DeviceOff")
       ELSE /\ devices' = [devices EXCEPT ![th[t].idx].consigne =
                              Clamp(th[t].arg, Dv(t).full_scale_value)]
            /\ th' = [th EXCEPT ![t].pc = "sc_fs"]
            /\ UNCHANGED <<serial_lock, mfc_objs, result>>
    /\ UNCHANGED <<serial_port, poll_stop, stale, bus, cycles>>

\* lines 204-208: return while full scale is unknown, else the percentage
SendConsignePerc(t) ==
    /\ th[t].pc = "sc_fs"
    /\ IF Dv(t).full_scale_value = 0
       THEN Return(t)
       ELSE /\ th' = [th EXCEPT ![t].pc = "sc_acq",
                                ![t].perc = Perc(Dv(t).consigne, Dv(t).full_scale_value)]
            /\ UNCHANGED result
    /\ UNCHANGED <<serial_port, serial_lock, devices, mfc_objs, poll_stop, stale,
                   bus, cycles>>

\* line 210: mfc.write_setpoint(perc, units=57) with perc = th[t].perc, the
\* only call of its exchange; it may raise
SendConsigneWrite(t) ==
    /\ th[t].pc = "sc_wr"
    /\ \/ /\ Release
          /\ th' = [th EXCEPT ![t].pc = "sc_hr"]
          /\ UNCHANGED <<devices, mfc_objs, result>>
       \/ Raise(t, "DriverError")
    /\ UNCHANGED <<serial_port, poll_stop, stale, cycles>>

\* line 213, the right-hand side: d.consigne_points + [(d.consigne, now)]
SendConsigneHistRead(t) ==
    /\ th[t].pc = "sc_hr"
    /\ th' = [th EXCEPT ![t].pc = "sc_hw",
                        ![t].buf = Appended(Dv(t).consigne_points, Dv(t).consigne)]
    /\ UNCHANGED <<serial_port, serial_lock, devices, mfc_objs, poll_stop, stale,
                   bus, result, cycles>>

\* line 213, the assignment to d.consigne_points
SendConsigneHistWrite(t) ==
    /\ th[t].pc = "sc_hw"
    /\ devices' = [devices EXCEPT ![th[t].idx].consigne_points = th[t].buf]
    /\ Return(t)
    /\ UNCHANGED <<serial_port, serial_lock, mfc_objs, poll_stop, stale, bus, cycles>>
(***************************************************************************)
(* set_vanne (lines 215-224)                                               *)
(***************************************************************************)
\* lines 216-221: _need_mfc, then the command of the action (None: return)
VanneCheck(t) ==
    /\ th[t].pc = "v_chk"
    /\ IF ~HasMfc(th[t].idx)
       THEN Raise(t, "DeviceOff")
       ELSE /\ IF th[t].arg = -1
               THEN Return(t)
               ELSE th' = [th EXCEPT ![t].pc = "v_acq"] /\ UNCHANGED result
            /\ UNCHANGED <<serial_lock, devices, mfc_objs>>
    /\ UNCHANGED <<serial_port, poll_stop, stale, bus, cycles>>

\* (set_vanne with the valve write and the read-back in two with blocks)
VanneSetTwoBlocks(t) ==
    /\ th[t].pc = "v_set"
    /\ \/ /\ Call(t, "set_vanne", th[t].arg)
          /\ serial_lock' = "free"
          /\ th' = [th EXCEPT ![t].pc = "v_read"]
          /\ UNCHANGED <<devices, mfc_objs, result>>
       \/ Raise(t, "DriverError")
    /\ UNCHANGED <<serial_port, poll_stop, stale, cycles>>

\* line 223: mfc.set_vanne(cmd)
VanneSet(t) ==
    /\ th[t].pc = "v_set"
    /\ \/ /\ Call(t, "set_vanne", th[t].arg)
          /\ th' = [th EXCEPT ![t].pc = "v_read"]
          /\ UNCHANGED <<serial_lock, devices, mfc_objs, result>>
       \/ Raise(t, "DriverError")
    /\ UNCHANGED <<serial_port, poll_stop, stale, cycles>>

\* line 224: d.valve_command = mfc.red_vanne() or "N/A", then the lock is released
VanneRead(t, labels) ==
    /\ th[t].pc = "v_read"
    /\ \/ \E lab \in labels :
            /\ devices' = [devices EXCEPT ![th[t].idx].valve_command = lab]
            /\ Release
            /\ Return(t)
            /\ UNCHANGED mfc_objs
       \/ Raise(t, "DriverError")
    /\ UNCHANGED <<serial_port, poll_stop, stale, cycles>>

(***************************************************************************)
(* apply_ramp_settings (lines 233-250)                                     *)
(***************************************************************************)
\* lines 238-243: float(ramp_time_s), 1.0 when that fails or when <= 0
\* (tenths of a second; x.num is FALSE for a non-numeric argument)
RampTime(x) == IF ~x.num THEN 10 ELSE IF x.val <= 0 THEN 10 ELSE x.val

\* lines 234-243: _need_mfc, then the two fields are stored
RampStore(t) ==
    /\ th[t].pc = "r_chk"
    /\ IF ~HasMfc(th[t].idx)
       THEN Raise(t, "DeviceOff")
       ELSE /\ devices' = [devices EXCEPT ![th[t].idx].ramp_active = th[t].flag,
                                          ![th[t].idx].ramp_time_s = th[t].arg]
            /\ th' = [th EXCEPT ![t].pc = "r_acq"]
            /\ UNCHANGED <<serial_lock, mfc_objs, result>>
    /\ UNCHANGED <<serial_port, poll_stop, stale, bus, cycles>>

\* lines 246-249: write_ramp_control(0), or write_ramp_control(4)
RampControl(t) ==
    /\ th[t].pc = "r_ctl"
    /\ IF ~Dv(t).ramp_active
       THEN \/ /\ Release
               /\ Return(t)
               /\ UNCHANGED <<devices, mfc_objs>>
            \/ Raise(t, "DriverError")
       ELSE \/ /\ Call(t, "write_ramp_control", 4)
               /\ th' = [th EXCEPT ![t].pc = "r_lin"]
               /\ UNCHANGED <<serial_lock, devices, mfc_objs, result>>
            \/ Raise(t, "DriverError")
    /\ UNCHANGED <<serial_port, poll_stop, stale, cycles>>

\* line 250: write_linear_ramp_value(d.ramp_time_s), then the lock is released
RampLinear(t) ==
    /\ th[t].pc = "r_lin"
    /\ \/ /\ Release
          /\ Return(t)
          /\ UNCHANGED <<devices, mfc_objs>>
       \/ Raise(t, "DriverError")
    /\ UNCHANGED <<serial_port, poll_stop, stale, cycles>>

(***************************************************************************)
(* reset_totalization (226-231) and select_gas (252-261)                   *)
(***************************************************************************)
\* lines 229-231: write_totalizer_control(2), then the stored value is zeroed
TotalizerReset(t) ==
    /\ th[t].pc = "t_wr"
    /\ \/ /\ Release
          /\ devices' = [devices EXCEPT ![th[t].idx].totalization_value = <<0, @[2]>>]
          /\ Return(t)
          /\ UNCHANGED mfc_objs
       \/ Raise(t, "DriverError")
    /\ UNCHANGED <<serial_port, poll_stop, stale, cycles>>

\* lines 259-261: mfc.Select_gaz(gaz_id); d.selected_gas = gaz_id
GasSelect(t) ==
    /\ th[t].pc = "g_sel"
    /\ \/ /\ Release
          /\ devices' = [devices EXCEPT ![th[t].idx].selected_gas = th[t].arg]
          /\ Return(t)
          /\ UNCHANGED mfc_objs
       \/ Raise(t, "DriverError")
    /\ UNCHANGED <<serial_port, poll_stop, stale, cycles>>

(***************************************************************************)
(* The calls of the api thread                                             *)
(***************************************************************************)
ApiIdle == th["api"].pc = "idle"

\* what result records of a call of the api thread
CallRecord(op, idx, out) ==
    [op |-> op, idx |-> idx, out |-> out, x |-> <<>>,
     after |-> IF /\ op = "deactivate" /\ result.op = "activate"
                  /\ result.idx = idx /\ result.out = "ok"
               THEN "activate" ELSE "none"]

\* the call ends at once with the exception e, or normally with "ok"
ApiEnds(op, idx, e) ==
    /\ result' = CallRecord(op, idx, e)
    /\ UNCHANGED <<serial_port, serial_lock, devices, mfc_objs, poll_stop, th,
                   stale, bus, cycles>>

\* the call goes on at position pc
ApiStarts(op, idx, pc, a, flag, ret) ==
    /\ th' = [th EXCEPT !["api"] =
                 [Idle EXCEPT !.pc = pc, !.op = op, !.idx = idx, !.arg = a,
                              !.flag = flag, !.ret = ret,
                              !.fs0 = IF op = "send_consigne"
                                      THEN devices[idx].full_scale_value ELSE 0]]
    /\ result' = [CallRecord(op, idx, "running") EXCEPT
                      !.x = IF op = "send_consigne" THEN <<a>> ELSE <<>>]
    /\ UNCHANGED <<serial_port, serial_lock, devices, mfc_objs, poll_stop,
                   stale, bus, cycles>>

\* send_consigne(idx, consigne): _get at line 189; a non-numeric value
\* returns at line 196, after _need_mfc
ApiSendConsigne(idx, x) ==
    /\ ApiIdle
    /\ IF ~InRange(idx) THEN ApiEnds("send_consigne", idx, "IndexError")
       ELSE IF ~x.num
       THEN ApiEnds("send_consigne", idx, IF HasMfc(idx) THEN "ok" ELSE "DeviceOff")
       ELSE ApiStarts("send_consigne", idx, "sc_chk", x.val, FALSE, "done")

\* set_vanne(idx, action)
ApiSetVanne(idx, action) ==
    /\ ApiIdle
    /\ IF ~InRange(idx) THEN ApiEnds("set_vanne", idx, "IndexError")
       ELSE ApiStarts("set_vanne", idx, "v_chk", ValveCmd(action), FALSE, "done")

\* apply_ramp_settings(idx, ramp_active, ramp_time_s)
ApiApplyRamp(idx, active, x) ==
    /\ ApiIdle
    /\ IF ~InRange(idx) THEN ApiEnds("apply_ramp_settings", idx, "IndexError")
       ELSE ApiStarts("apply_ramp_settings", idx, "r_chk", RampTime(x), active, "done")

\* reset_totalization(idx): lines 227-228
ApiResetTotalization(idx) ==
    /\ ApiIdle
    /\ IF ~InRange(idx) THEN ApiEnds("reset_totalization", idx, "IndexError")
       ELSE IF ~HasMfc(idx) THEN ApiEnds("reset_totalization", idx, "DeviceOff")
       ELSE ApiStarts("reset_totalization", idx, "t_acq", 0, FALSE, "done")

\* select_gas(idx, gas_name): lines 253-258
ApiSelectGas(idx, name) ==
    /\ ApiIdle
    /\ IF ~InRange(idx) THEN ApiEnds("select_gas", idx, "IndexError")
       ELSE IF ~HasMfc(idx) THEN ApiEnds("select_gas", idx, "DeviceOff")
       ELSE IF name \notin DOMAIN devices[idx].gas_map
       THEN ApiEnds("select_gas", idx, "ok")
       ELSE ApiStarts("select_gas", idx, "g_acq", devices[idx].gas_map[name],
                      FALSE, "done")
(***************************************************************************)
(* activate (lines 114-164)                                                *)
(***************************************************************************)
\* (activate without the port check of lines 116-117)
ApiActivateNoPortCheck(idx) ==
    /\ ApiIdle
    /\ IF ~InRange(idx) THEN ApiEnds("activate", idx, "IndexError")
       ELSE ApiStarts("activate", idx, "a_acq_addr", 0, FALSE, "none")

\* lines 115-121: _get, the port check, a new binding for the channel
ApiActivate(idx) ==
    /\ ApiIdle
    /\ IF ~InRange(idx) THEN ApiEnds("activate", idx, "IndexError")
       ELSE IF ~Connected THEN ApiEnds("activate", idx, "NotConnected")
       ELSE ApiStarts("activate", idx, "a_acq_addr", 0, FALSE, "none")

\* after the probe of gas g: the next gas, or line 144 (a first gas to
\* select, if any was found), or line 150
AfterProbe(r, gases) ==
    IF r.g < MaxGas THEN [r EXCEPT !.pc = "a_acq_gas", !.g = r.g + 1]
    ELSE IF gases # <<>> THEN [r EXCEPT !.pc = "a_acq_first", !.g = 0]
    ELSE [r EXCEPT !.pc = "a_acq_tot", !.g = 0]

\* lines 124-131: get_address(); then active, the binding, the gas lists
ActivateProbe ==
    /\ th["api"].pc = "a_addr"
    /\ \/ /\ Release
          /\ devices' = [devices EXCEPT ![th["api"].idx].active = TRUE,
                                        ![th["api"].idx].available_gases = <<>>,
                                        ![th["api"].idx].gas_map = EmptyMap]
          /\ mfc_objs' = [mfc_objs EXCEPT ![th["api"].idx] = TRUE]
          /\ th' = [th EXCEPT !["api"].pc = "a_acq_gas", !["api"].g = 1]
          /\ UNCHANGED result
       \/ Raise("api", "DriverError")
    /\ UNCHANGED <<serial_port, poll_stop, stale, cycles>>

\* line 135: mfc.Select_gaz(gaz_id); a failure is swallowed at line 141
ActivateSelectGaz ==
    /\ th["api"].pc = "a_selgaz"
    /\ \/ /\ Call("api", "Select_gaz", th["api"].g)
          /\ th' = [th EXCEPT !["api"].pc = "a_selnom"]
          /\ UNCHANGED serial_lock
       \/ /\ Release
          /\ th' = [th EXCEPT !["api"] = AfterProbe(@, Dv("api").available_gases)]
    /\ UNCHANGED <<serial_port, devices, mfc_objs, poll_stop, stale, result, cycles>>

\* lines 136-140: Select_nom(gaz_id); a name is appended and mapped, an
\* empty name or a failure leaves the gas out
ActivateSelectNom ==
    /\ th["api"].pc = "a_selnom"
    /\ Release
    /\ \/ LET i == th["api"].idx
              name == GasName(th["api"].g)
              gases == Append(devices[i].available_gases, name)
              map == [n \in DOMAIN devices[i].gas_map \cup {name} |->
                         IF n = name THEN th["api"].g ELSE devices[i].gas_map[n]]
          IN  /\ devices' = [devices EXCEPT ![i].available_gases = gases,
                                            ![i].gas_map = map]
              /\ th' = [th EXCEPT !["api"] = AfterProbe(@, gases)]
       \/ /\ th' = [th EXCEPT !["api"] = AfterProbe(@, Dv("api").available_gases)]
          /\ UNCHANGED devices
    /\ UNCHANGED <<serial_port, mfc_objs, poll_stop, stale, result, cycles>>

\* lines 145-148: Select_gaz of the first gas found; d.selected_gas
ActivateFirstGas ==
    /\ th["api"].pc = "a_first"
    /\ LET d == Dv("api")
           first == d.gas_map[d.available_gases[1]]
       IN  \/ /\ Release
              /\ devices' = [devices EXCEPT ![th["api"].idx].selected_gas = first]
              /\ th' = [th EXCEPT !["api"].pc = "a_acq_tot"]
              /\ UNCHANGED <<mfc_objs, result>>
           \/ Raise("api", "DriverError")
    /\ UNCHANGED <<serial_port, poll_stop, stale, cycles>>

\* lines 150-154: write_totalizer_control(1); then apply_ramp_settings with
\* the stored ramp fields is called
ActivateTotalizer ==
    /\ th["api"].pc = "a_tot"
    /\ \/ /\ Release
          /\ th' = [th EXCEPT !["api"].pc = "r_chk",
                              !["api"].flag = Dv("api").ramp_active,
                              !["api"].arg = Dv("api").ramp_time_s,
                              !["api"].ret = "a_vanne"]
          /\ UNCHANGED <<devices, mfc_objs, result>>
       \/ Raise("api", "DriverError")
    /\ UNCHANGED <<serial_port, poll_stop, stale, cycles>>

(***************************************************************************)
(* deactivate (lines 166-179)                                              *)
(***************************************************************************)
\* lines 167-171: _get; when active with a binding, send_consigne(idx, 0.0)
ApiDeactivate(idx) ==
    /\ ApiIdle
    /\ IF ~InRange(idx) THEN ApiEnds("deactivate", idx, "IndexError")
       ELSE IF HasMfc(idx)
       THEN ApiStarts("deactivate", idx, "sc_chk", 0, FALSE, "d_sleep")
       ELSE ApiStarts("deactivate", idx, "d_end", 0, FALSE, "none")

\* line 174: mfc.write_ramp_control(0); a failure is swallowed
DeactivateRamp ==
    /\ th["api"].pc = "d_ramp"
    /\ Release
    /\ th' = [th EXCEPT !["api"].pc = "d_end"]
    /\ UNCHANGED <<serial_port, devices, mfc_objs, poll_stop, stale, result, cycles>>

\* lines 177-179: active = False, the binding dropped, _reset_data
DeactivateEnd ==
    /\ th["api"].pc = "d_end"
    /\ devices' = [devices EXCEPT ![th["api"].idx] =
                      ResetData([@ EXCEPT !.active = FALSE])]
    /\ mfc_objs' = [mfc_objs EXCEPT ![th["api"].idx] = FALSE]
    /\ th' = [th EXCEPT !["api"] = Idle]
    /\ result' = [result EXCEPT !.out = "ok"]
    /\ UNCHANGED <<serial_port, serial_lock, poll_stop, stale, bus, cycles>>

(***************************************************************************)
(* connect, disconnect (lines 94-111), _start_polling, _stop_polling       *)
(***************************************************************************)
PollerAlive == th["poller"].pc # "dead"

\* the poller is inside _poll_one with the binding it fetched at line 290
PollerHoldsMfc ==
    th["poller"].pc \in {"p_acq", "p_r1", "p_r2", "p_r3", "p_r4", "p_r5",
                         "sc_fs", "sc_acq", "sc_wr"}

\* connect(port) and disconnect() begin with _stop_polling: line 272
ApiConnect ==
    /\ ApiIdle
    /\ poll_stop' = TRUE
    /\ th' = [th EXCEPT !["api"] = [Idle EXCEPT !.pc = "dc_join", !.op = "connect"]]
    /\ result' = CallRecord("connect", 0, "running")
    /\ UNCHANGED <<serial_port, serial_lock, devices, mfc_objs, stale, bus, cycles>>

ApiDisconnect ==
    /\ ApiIdle
    /\ poll_stop' = TRUE
    /\ th' = [th EXCEPT !["api"] = [Idle EXCEPT !.pc = "dc_join", !.op = "disconnect"]]
    /\ result' = CallRecord("disconnect", 0, "running")
    /\ UNCHANGED <<serial_port, serial_lock, devices, mfc_objs, stale, bus, cycles>>

\* lines 273-274: join(timeout=1.0) returns when the poll thread has ended
\* or when the second has passed, whatever the poll thread is doing
JoinPoller ==
    /\ th["api"].pc = "dc_join"
    /\ th' = [th EXCEPT !["api"].pc = "dc_close"]
    /\ UNCHANGED <<serial_port, serial_lock, devices, mfc_objs, poll_stop, stale,
                   bus, result, cycles>>

\* lines 101-111: the port is closed and forgotten, every channel loses
\* its binding and its active flag
CloseSession ==
    /\ th["api"].pc = "dc_close"
    /\ serial_port' = "none"
    /\ stale' = (stale \/ (Connected /\ PollerHoldsMfc))
    /\ devices' = [i \in Dev |-> [devices[i] EXCEPT !.active = FALSE]]
    /\ mfc_objs' = [i \in Dev |-> FALSE]
    /\ IF th["api"].op = "connect"
       THEN th' = [th EXCEPT !["api"].pc = "cn_open"] /\ UNCHANGED result
       ELSE th' = [th EXCEPT !["api"] = Idle] /\ result' = [result EXCEPT !.out = "ok"]
    /\ UNCHANGED <<serial_lock, poll_stop, bus, cycles>>

\* lines 96-97 and 264-269: the port opens and _start_polling runs (it
\* returns at once when the poll thread is alive), or open_serial_port raises
OpenPort ==
    /\ th["api"].pc = "cn_open"
    /\ \/ /\ serial_port' = "open"
          /\ result' = [result EXCEPT !.out = "ok"]
          /\ IF PollerAlive
             THEN /\ th' = [th EXCEPT !["api"] = Idle]
                  /\ UNCHANGED poll_stop
             ELSE /\ th' = [th EXCEPT !["api"] = Idle,
                                      !["poller"] = [Idle EXCEPT !.pc = "p_top",
                                                                 !.op = "poll"]]
                  /\ poll_stop' = FALSE
       \/ /\ result' = [result EXCEPT !.out = "TransportError"]
          /\ th' = [th EXCEPT !["api"] = Idle]
          /\ UNCHANGED <<serial_port, poll_stop>>
    /\ UNCHANGED <<serial_lock, devices, mfc_objs, stale, bus, cycles>>
(***************************************************************************)
(* _poll_loop (lines 276-286) and _poll_one (lines 288-329)                *)
(***************************************************************************)
\* line 277: the loop ends when the stop event is set, else a cycle begins
PollLoopTop ==
    /\ th["poller"].pc = "p_top"
    /\ IF poll_stop
       THEN th' = [th EXCEPT !["poller"] = Dead] /\ UNCHANGED cycles
       ELSE /\ cycles < MaxCycles
            /\ cycles' = cycles + 1
            /\ th' = [th EXCEPT !["poller"].pc = "p_chk", !["poller"].idx = 0]
    /\ UNCHANGED <<serial_port, serial_lock, devices, mfc_objs, poll_stop, stale,
                   bus, result>>

\* lines 278-281 and 286: the next channel; an inactive one is skipped;
\* after the last one the thread sleeps and comes back to line 277
PollCheck ==
    /\ th["poller"].pc = "p_chk"
    /\ LET i == th["poller"].idx
       IN  IF i >= max_devices
           THEN th' = [th EXCEPT !["poller"] = [Idle EXCEPT !.pc = "p_top", !.op = "poll"]]
           ELSE IF ~devices[i].active
           THEN th' = [th EXCEPT !["poller"] = PollNext(@)]
           ELSE th' = [th EXCEPT !["poller"].pc = "p_need"]
    /\ UNCHANGED <<serial_port, serial_lock, devices, mfc_objs, poll_stop, stale,
                   bus, result, cycles>>

\* lines 289-299: _need_mfc; the default gas when none is selected
PollNeed ==
    /\ th["poller"].pc = "p_need"
    /\ LET i == th["poller"].idx
           d == devices[i]
           sel == IF d.selected_gas # NoGas THEN d.selected_gas
                  ELSE IF d.available_gases # <<>>
                            /\ d.available_gases[1] \in DOMAIN d.gas_map
                  THEN d.gas_map[d.available_gases[1]]
                  ELSE NoGas
       IN  IF ~HasMfc(i)
           THEN Raise("poller", "DeviceOff") /\ UNCHANGED stale
           ELSE /\ devices' = [devices EXCEPT ![i].selected_gas = sel]
                /\ IF sel = NoGas
                   THEN th' = [th EXCEPT !["poller"] = PollNext(@)]
                   ELSE th' = [th EXCEPT !["poller"].pc = "p_acq", !["poller"].g = sel]
                /\ stale' = FALSE
                /\ UNCHANGED <<serial_lock, mfc_objs, result>>
    /\ UNCHANGED <<serial_port, poll_stop, bus, cycles>>

\* the reads of lines 301-304, in order
ReadCall == [p_r1 |-> "read_flow_rate", p_r2 |-> "read_dynamic",
             p_r3 |-> "read_full_scale_flow_rate", p_r4 |-> "read_totalizer_value"]
ReadNext == [p_r1 |-> "p_r2", p_r2 |-> "p_r3", p_r3 |-> "p_r4", p_r4 |-> "p_r5"]

\* one of lines 301-304: a read of the exchange, which may raise
PollRead ==
    /\ th["poller"].pc \in DOMAIN ReadCall
    /\ \/ /\ Call("poller", ReadCall[th["poller"].pc], th["poller"].g)
          /\ th' = [th EXCEPT !["poller"].pc = ReadNext[th["poller"].pc]]
          /\ UNCHANGED <<serial_lock, devices, mfc_objs, result>>
       \/ Raise("poller", "DriverError")
    /\ UNCHANGED <<serial_port, poll_stop, stale, cycles>>

\* line 305: red_vanne() ends the exchange and the lock is released; the
\* thread now holds what the five reads answered ("or (0, 'N/A')" applied).
\* A binding of a closed port reads nothing.
PollReadValve(answers) ==
    /\ th["poller"].pc = "p_r5"
    /\ \/ \E a \in (IF stale THEN {NoAnswer} ELSE answers) :
            /\ Release
            /\ th' = [th EXCEPT !["poller"].pc = "p_w1", !["poller"].ans = a]
            /\ UNCHANGED <<devices, mfc_objs, result>>
       \/ Raise("poller", "DriverError")
    /\ UNCHANGED <<serial_port, poll_stop, stale, cycles>>

\* lines 307-309: mesure, temperature, full_scale_value
PollStore1 ==
    /\ th["poller"].pc = "p_w1"
    /\ LET i == th["poller"].idx
           a == th["poller"].ans
           d == [devices[i] EXCEPT !.mesure = a.fr, !.temperature = a.tmp,
                                   !.full_scale_value = a.fs[1]]
       IN  /\ devices' = [devices EXCEPT ![i] = d]
           /\ th' = [th EXCEPT !["poller"].pc = "p_w2",
                               !["poller"].flag = (View(d) # View(devices[i]))]
    /\ UNCHANGED <<serial_port, serial_lock, mfc_objs, poll_stop, stale, bus,
                   result, cycles>>

\* lines 310-312: full_scale, totalization_value, valve_command
PollStore2 ==
    /\ th["poller"].pc = "p_w2"
    /\ LET i == th["poller"].idx
           a == th["poller"].ans
       IN  devices' = [devices EXCEPT ![i].full_scale = a.fs,
                                      ![i].totalization_value = a.tot,
                                      ![i].valve_command = a.valve]
    /\ th' = [th EXCEPT !["poller"].pc = "p_h", !["poller"].flag = FALSE,
                        !["poller"].ans = NoAnswer]
    /\ UNCHANGED <<serial_port, serial_lock, mfc_objs, poll_stop, stale, bus,
                   result, cycles>>

\* lines 314-321: the measurement is appended; the right-hand side of
\* line 321, d.consigne_points + [(float(d.consigne), now)], is built
PollHistRead ==
    /\ th["poller"].pc = "p_h"
    /\ LET i == th["poller"].idx
           d == devices[i]
       IN  /\ devices' = [devices EXCEPT ![i].measurements =
                                            Appended(d.measurements, d.mesure[1])]
           /\ th' = [th EXCEPT !["poller"].pc = "p_hw",
                               !["poller"].buf = Appended(d.consigne_points, d.consigne)]
    /\ UNCHANGED <<serial_port, serial_lock, mfc_objs, poll_stop, stale, bus,
                   result, cycles>>

\* line 321, the assignment; lines 324-327: with a full scale and a
\* setpoint, send_consigne(idx, d.consigne) is called inside try
PollHistWrite ==
    /\ th["poller"].pc = "p_hw"
    /\ LET i == th["poller"].idx
           d == devices[i]
       IN  /\ devices' = [devices EXCEPT ![i].consigne_points = th["poller"].buf]
           /\ IF d.full_scale_value # 0 /\ d.consigne # 0
              THEN th' = [th EXCEPT !["poller"] =
                             [Idle EXCEPT !.pc = "sc_chk", !.op = "lazy", !.idx = i,
                                          !.arg = d.consigne]]
              ELSE th' = [th EXCEPT !["poller"] = PollNext(@)]
    /\ UNCHANGED <<serial_port, serial_lock, mfc_objs, poll_stop, stale, bus,
                   result, cycles>>

(***************************************************************************)
(* snapshot (lines 331-350)                                                *)
(***************************************************************************)
\* The view of channel i is torn: the poller has stored lines 307-309 of an
\* update that changed the view, and lines 310-312 of the same update are
\* still to come with a change of the view.
TornView(i) ==
    LET r == th["poller"]
        d == devices[i]
    IN  /\ r.pc = "p_w2" /\ r.idx = i /\ r.flag
        /\ d.mesure = r.ans.fr /\ d.full_scale_value = r.ans.fs[1]
        /\ (d.totalization_value # r.ans.tot \/ d.valve_command # r.ans.valve)

\* snapshot() reads every channel's fields
ApiSnapshot ==
    /\ ApiIdle
    /\ result' = CallRecord("snapshot", 0, "ok")
    /\ UNCHANGED <<serial_port, serial_lock, devices, mfc_objs, poll_stop, th,
                   stale, bus, cycles>>
(***************************************************************************)
(* Inputs and scheduling                                                   *)
(***************************************************************************)
Num(v) == [num |-> TRUE, val |-> v]
NotANumber == [num |-> FALSE, val |-> 0]

\* what one poll exchange reads when the device answers, with full scale F
Sample(F) ==
    [fr |-> <<5, "ln/min">>, tmp |-> <<20, "C">>, fs |-> <<F, "ln/min">>,
     tot |-> <<7, "l">>, valve |-> "Regulation"]

\* A thread may be preempted where it waits (for a call, for the lock, for
\* the next cycle, in join) and at the positions Y of the specification;
\* between two such positions its statements run without interruption.
Waits == {"idle", "dead", "p_top", "dc_join"} \cup DOMAIN AfterAcquire
Other(t) == IF t = "api" THEN "poller" ELSE "api"
MayRun(t, Y) == th[Other(t)].pc \in (Waits \cup Y)

\* the positions outside the exchanges, before a statement that reads or
\* writes a channel record or the session
OutBlock ==
    {"sc_chk", "sc_fs", "sc_hr", "sc_hw", "v_chk", "r_chk", "d_end", "dc_close",
     "cn_open", "p_chk", "p_need", "p_w1", "p_w2", "p_h", "p_hw"}

\* every position
AllPcs == InBlock \cup OutBlock

\* send_consigne, run by the api thread (called, or inside activate and
\* deactivate) and by the poller (line 327); Acquire is every "with"
SendConsigneStep(t, Y) ==
    \/ MayRun(t, Y) /\ Acquire(t)
    \/ MayRun(t, Y) /\ SendConsigneStore(t)
    \/ MayRun(t, Y) /\ SendConsignePerc(t)
    \/ MayRun(t, Y) /\ SendConsigneWrite(t)
    \/ MayRun(t, Y) /\ SendConsigneHistRead(t)
    \/ MayRun(t, Y) /\ SendConsigneHistWrite(t)

\* set_vanne and apply_ramp_settings with the ramp off, which activate runs
ValveRampStep(I, Y) ==
    \/ MayRun("api", Y) /\ VanneCheck("api")
    \/ MayRun("api", Y) /\ VanneSet("api")
    \/ MayRun("api", Y) /\ VanneRead("api", I.labels)
    \/ MayRun("api", Y) /\ RampStore("api")
    \/ MayRun("api", Y) /\ RampControl("api")

ActivateStep(Y) ==
    \/ MayRun("api", Y) /\ ActivateProbe
    \/ MayRun("api", Y) /\ ActivateSelectGaz
    \/ MayRun("api", Y) /\ ActivateSelectNom
    \/ MayRun("api", Y) /\ ActivateFirstGas
    \/ MayRun("api", Y) /\ ActivateTotalizer

DeactivateStep(Y) ==
    \/ MayRun("api", Y) /\ DeactivateRamp
    \/ MayRun("api", Y) /\ DeactivateEnd

SessionStep(Y) ==
    \/ MayRun("api", Y) /\ JoinPoller
    \/ MayRun("api", Y) /\ CloseSession
    \/ MayRun("api", Y) /\ OpenPort

\* the ramp duration, reset_totalization, select_gas
MoreStep(Y) ==
    \/ MayRun("api", Y) /\ RampLinear("api")
    \/ MayRun("api", Y) /\ TotalizerReset("api")
    \/ MayRun("api", Y) /\ GasSelect("api")

PollStep(I, Y) ==
    \/ MayRun("poller", Y) /\ PollLoopTop
    \/ MayRun("poller", Y) /\ PollCheck
    \/ MayRun("poller", Y) /\ PollNeed
    \/ MayRun("poller", Y) /\ PollRead
    \/ MayRun("poller", Y) /\ PollReadValve(I.answers)
    \/ MayRun("poller", Y) /\ PollStore1
    \/ MayRun("poller", Y) /\ PollStore2
    \/ MayRun("poller", Y) /\ PollHistRead
    \/ MayRun("poller", Y) /\ PollHistWrite

\* connect, activate, deactivate, send_consigne
CoreCall(I, Y) ==
    \/ MayRun("api", Y) /\ ApiConnect
    \/ \E idx \in I.idx : MayRun("api", Y) /\ ApiActivate(idx)
    \/ \E idx \in I.idx : MayRun("api", Y) /\ ApiDeactivate(idx)
    \/ \E idx \in I.idx, x \in I.consigne :
          MayRun("api", Y) /\ ApiSendConsigne(idx, x)

\* disconnect, set_vanne, apply_ramp_settings, reset_totalization, select_gas
MoreCall(I, Y) ==
    \/ MayRun("api", Y) /\ ApiDisconnect
    \/ \E idx \in I.idx, a \in I.action : MayRun("api", Y) /\ ApiSetVanne(idx, a)
    \/ \E idx \in I.idx, r \in I.ramp :
          MayRun("api", Y) /\ ApiApplyRamp(idx, r[1], r[2])
    \/ \E idx \in I.idx : MayRun("api", Y) /\ ApiResetTotalization(idx)
    \/ \E idx \in I.idx, n \in I.gas : MayRun("api", Y) /\ ApiSelectGas(idx, n)

\* the poller with what activate and connect need of the api thread
BaseNext(I, Y) ==
    \/ ActivateStep(Y)
    \/ SessionStep(Y)
    \/ ValveRampStep(I, Y)
    \/ SendConsigneStep("api", Y)
    \/ SendConsigneStep("poller", Y)
    \/ PollStep(I, Y)

(***************************************************************************)
(* Specifications                                                          *)
(***************************************************************************)
\* Every call of the manager on one channel, and with an index out of range;
\* the threads interleave at every Driver call and wherever one of them waits.
InAll ==
    [idx |-> {-1, 0},
     consigne |-> {Num(150), NotANumber},
     action |-> {"Ouverture"},
     ramp |-> {<<TRUE, Num(20)>>, <<TRUE, Num(5)>>, <<TRUE, Num(0)>>,
              <<TRUE, NotANumber>>},
     gas |-> {"N2"},
     labels |-> {"Regulation"},
     answers |-> {Sample(100)}]

Next ==
    \/ BaseNext(InAll, InBlock)
    \/ DeactivateStep(InBlock)
    \/ MoreStep(InBlock)
    \/ CoreCall(InAll, InBlock)
    \/ MoreCall(InAll, InBlock)
    \/ MayRun("api", InBlock) /\ ApiSnapshot

Spec == Init /\ [][Next]_vars

\* connect, activate and set_vanne on two channels, with the same
\* interleaving.  No setpoint but 0 is stored, so the poller never runs
\* send_consigne.
InTwo == [InAll EXCEPT !.idx = {0, 1}]

NextTwo ==
    \/ ActivateStep(InBlock)
    \/ SessionStep(InBlock)
    \/ ValveRampStep(InTwo, InBlock)
    \/ SendConsigneStep("api", InBlock)
    \/ PollStep(InTwo, InBlock)
    \/ MayRun("poller", InBlock) /\ Acquire("poller")
    \/ MayRun("api", InBlock) /\ ApiConnect
    \/ \E idx \in InTwo.idx : MayRun("api", InBlock) /\ ApiActivate(idx)
    \/ \E idx \in InTwo.idx, a \in InTwo.action :
          MayRun("api", InBlock) /\ ApiSetVanne(idx, a)

SpecTwo == Init /\ [][NextTwo]_vars

\* connect, activate, deactivate, send_consigne and snapshot on one channel;
\* the threads interleave after every step.
InRace == [InAll EXCEPT !.idx = {0},
                       !.consigne = {Num(150), Num(-10), NotANumber}]

NextRace ==
    \/ BaseNext(InRace, AllPcs)
    \/ DeactivateStep(AllPcs)
    \/ CoreCall(InRace, AllPcs)
    \/ MayRun("api", AllPcs) /\ ApiSnapshot

SpecRace == Init /\ [][NextRace]_vars

(***************************************************************************)
(* Properties                                                              *)
(***************************************************************************)
InExchange(t) == th[t].pc \in InBlock

\* C1: bus mutual exclusion.  At most one thread is inside a Driver
\* exchange; a thread inside an exchange holds serial_lock, the Driver call
\* in progress on the bus is the lock holder's, and the lock is held only
\* while its holder is inside an exchange (it is released when the exchange
\* ends).
BusMutualExclusion ==
    /\ Cardinality({t \in Threads : InExchange(t)}) <= 1
    /\ \A t \in Threads : InExchange(t) <=> serial_lock = t
    /\ bus # NoCall => bus.by = serial_lock

\* C1 witness: the poller is inside its exchange, between two reads, while
\* the api thread waits for the lock in front of a Driver call of its own.
BusContended ==
    /\ th["poller"].pc \in {"p_r2", "p_r3", "p_r4", "p_r5"}
    /\ serial_lock = "poller"
    /\ th["api"].pc \in DOMAIN AfterAcquire

\* the Driver call that precedes each later read of the poll exchange
PrevRead ==
    [p_r2 |-> "read_flow_rate", p_r3 |-> "read_dynamic",
     p_r4 |-> "read_full_scale_flow_rate", p_r5 |-> "read_totalizer_value"]

Moves(t) == th'[t] # th[t]

\* C2: the poll exchange of one channel and the set_vanne exchange of
\* another are contiguous blocks on the bus.  Each of the poller's reads
\* after the first finds that the last Driver call on the bus is its own
\* previous read of the same channel; the valve read-back of set_vanne finds
\* that the last call is its own valve write on its channel; and the first
\* call of either block finds no exchange in progress.
ExchangesContiguous ==
    [][/\ (th["poller"].pc \in DOMAIN PrevRead /\ Moves("poller"))
            => bus = [by |-> "poller", idx |-> th["poller"].idx,
                      call |-> PrevRead[th["poller"].pc], arg |-> th["poller"].g]
       /\ (th["api"].pc = "v_read" /\ Moves("api"))
            => bus = [by |-> "api", idx |-> th["api"].idx,
                      call |-> "set_vanne", arg |-> th["api"].arg]
       /\ (th["poller"].pc = "p_r1" /\ Moves("poller")) => bus = NoCall
       /\ (th["api"].pc = "v_set" /\ Moves("api")) => bus = NoCall]_vars

\* C2 witness: the poller is in the middle of the reads of channel A while
\* set_vanne(B, action), called for another channel B, waits for the lock.
PollMeetsSetVanne ==
    /\ th["poller"].pc \in DOMAIN PrevRead
    /\ th["api"].op = "set_vanne"
    /\ th["api"].pc = "v_acq"
    /\ th["api"].idx # th["poller"].idx
    /\ devices[th["api"].idx].active
    /\ devices[th["poller"].idx].active

\* the api thread's call of snapshot()
SnapshotTaken == ApiIdle /\ result' # result /\ result'.op = "snapshot"

\* C3: snapshot() never returns a torn view: the view of a channel never
\* holds the first fields of a poll update (mesure, full_scale_value)
\* without the last ones (total, valve) of the same update.
SnapshotNeverTorn ==
    [][SnapshotTaken => \A i \in Dev : ~TornView(i)]_vars

\* the telemetry fields and both histories hold the unknown sentinel
DataReset(d) ==
    /\ d.mesure = Sentinel /\ d.temperature = Sentinel
    /\ d.full_scale = Sentinel /\ d.totalization_value = Sentinel
    /\ d.valve_command = NoValve
    /\ d.measurements = <<>> /\ d.consigne_points = <<>>

\* C4: in every reachable state a channel that is not active has no
\* binding, no selected gas, empty gas menus, empty histories, and sentinel
\* telemetry, full_scale_value included.
InactiveIsReset ==
    \A i \in Dev :
        ~devices[i].active =>
            /\ ~mfc_objs[i]
            /\ devices[i].selected_gas = NoGas
            /\ devices[i].available_gases = <<>>
            /\ devices[i].gas_map = EmptyMap
            /\ DataReset(devices[i])
            /\ devices[i].full_scale_value = 0

\* disconnect() returns
DisconnectReturns ==
    /\ th["api"].op = "disconnect" /\ th["api"].pc = "dc_close"
    /\ th'["api"].pc = "idle"

\* C5: when disconnect() returns the session handle is cleared, every
\* channel is inactive without binding, every channel's telemetry and
\* histories are reset, and no Driver exchange was made by the call (it
\* never held the lock and put no call on the bus).
DisconnectResetsAll ==
    [][DisconnectReturns =>
          /\ serial_port' = "none"
          /\ \A i \in Dev : /\ ~devices'[i].active
                            /\ ~mfc_objs'[i]
                            /\ DataReset(devices'[i])
          /\ serial_lock # "api" /\ bus.by # "api"
          /\ serial_lock' # "api" /\ bus'.by # "api"]_vars

\* C6: in every reachable state the stored setpoint of a channel whose full
\* scale is known (nonzero) is at most the full scale.
SetpointWithinFullScale ==
    \A i \in Dev :
        devices[i].full_scale_value # 0 =>
            devices[i].consigne <= devices[i].full_scale_value

\* send_consigne(idx, v), called by the api thread, returns normally: after
\* line 206 (no write) or after line 213 (the write of th["api"].perc made)
SetSetpointReturns ==
    /\ th["api"].op = "send_consigne" /\ th["api"].pc \in {"sc_fs", "sc_hw"}
    /\ th'["api"].pc = "idle" /\ result'.out = "ok"

\* C7: when setSetpoint(i, v), called on an active channel whose full scale
\* F > 0 was known, returns, the stored setpoint is min(max(v, 0), F) and
\* the call has made the Driver write of the percentage stored / F * 100.
SetSetpointClamps ==
    [][(SetSetpointReturns /\ th["api"].fs0 > 0) =>
          LET i == th["api"].idx
              F == th["api"].fs0
              v == th["api"].arg
              stored == devices'[i].consigne
          IN  /\ stored = Clamp(v, F)
              /\ 0 <= stored /\ stored <= F
              /\ th["api"].pc = "sc_hw"
              /\ th["api"].perc = Perc(stored, F)]_vars

\* the poller ends lines 307-321 of a poll of a channel whose full scale is
\* known and whose stored setpoint is nonzero
PollLearns ==
    /\ th["poller"].pc = "p_hw" /\ Moves("poller")
    /\ devices[th["poller"].idx].full_scale_value # 0
    /\ devices[th["poller"].idx].consigne # 0

\* the poller makes the Driver write of send_consigne
PollerWrites == th["poller"].pc = "sc_wr" /\ th'["poller"].pc = "sc_hr"

\* C8: a setpoint stored while full scale is unknown is not lost.
\* setSetpoint(i, v) called with v > 0 while full_scale_value = 0 stores v
\* and returns without a Driver write; the poll that ends with a known full
\* scale F and a nonzero stored setpoint calls send_consigne with it in the
\* same cycle; and the write the poller then makes for the setpoint it
\* picked up carries min(v, F) / F * 100.
DeferredSetpointKept ==
    [][/\ (SetSetpointReturns /\ th["api"].fs0 = 0 /\ th["api"].arg > 0) =>
             /\ devices'[th["api"].idx].consigne = th["api"].arg
             /\ th["api"].pc = "sc_fs"
       /\ PollLearns =>
             /\ th'["poller"].pc = "sc_chk"
             /\ th'["poller"].arg = devices[th["poller"].idx].consigne
       /\ LET F == devices[th["poller"].idx].full_scale_value
              stored == devices[th["poller"].idx].consigne
          IN  (PollerWrites /\ stored = Clamp(th["poller"].arg, F)) =>
                 th["poller"].perc = Perc(stored, F)]_vars

\* C9: each history holds at most the cap, and every change of a history
\* is an append that evicts the oldest entries beyond the cap, wherever the
\* append comes from (or the clearing of the history by a reset).
HistoriesFifo ==
    [][\A i \in Dev :
          LET IsAppend(old, new) ==
                  new = <<>> \/ (new # <<>> /\ new = Appended(old, new[Len(new)]))
          IN  /\ Len(devices'[i].measurements) <= HistCap
              /\ Len(devices'[i].consigne_points) <= HistCap
              /\ devices'[i].measurements # devices[i].measurements =>
                    IsAppend(devices[i].measurements, devices'[i].measurements)
              /\ devices'[i].consigne_points # devices[i].consigne_points =>
                    IsAppend(devices[i].consigne_points, devices'[i].consigne_points)]_vars

\* C10: deactivate(i) called right after activate(i) returned leaves channel i
\* inactive, without binding, with telemetry and histories at the sentinel;
\* and deactivate of a valid channel never ends with an exception.
DeactivateLeavesReset ==
    /\ (result.op = "deactivate" /\ InRange(result.idx))
          => result.out \in {"running", "ok"}
    /\ (ApiIdle /\ result.op = "deactivate" /\ result.after = "activate"
            /\ result.out = "ok")
          => /\ ~devices[result.idx].active
             /\ ~mfc_objs[result.idx]
             /\ DataReset(devices[result.idx])

\* a call of the api thread ends (at once, or after its steps)
CallEnds(op) ==
    /\ result'.op = op /\ result'.out # "running"
    /\ result' # result

\* C11: a failing activate(i) surfaces its error and leaves channel i
\* inactive without binding; without an open session it fails with the
\* not-connected error before any binding is made and changes no channel
\* state; and activate returns normally only with the channel active and
\* bound.
ActivateFailsClean ==
    [][/\ (CallEnds("activate") /\ result'.out # "ok" /\ InRange(result'.idx)) =>
             /\ ~devices'[result'.idx].active
             /\ ~mfc_objs'[result'.idx]
       /\ (ApiIdle /\ result'.op = "activate" /\ result' # result
              /\ InRange(result'.idx) /\ ~Connected) =>
             /\ result'.out = "NotConnected"
             /\ UNCHANGED <<devices, mfc_objs, serial_lock, bus>>
       /\ (CallEnds("activate") /\ result'.out = "ok") =>
             /\ devices'[result'.idx].active
             /\ mfc_objs'[result'.idx]]_vars

\* C11 witness: activate(i) has failed on a Driver error after the address
\* probe succeeded and a gas was found; the channel is inactive and unbound.
ActivateFailedLate ==
    /\ ApiIdle /\ result.op = "activate" /\ result.out = "DriverError"
    /\ devices[result.idx].available_gases # <<>>
    /\ ~devices[result.idx].active /\ ~mfc_objs[result.idx]

\* the commands that need an active channel
Commands ==
    {"send_consigne", "set_vanne", "reset_totalization", "apply_ramp_settings",
     "select_gas"}

\* a command of the api thread passes _get and _need_mfc, or fails there:
\* at the call itself, or at the first step of the method
CommandChecked ==
    /\ result'.op \in Commands /\ result'.out # "running"
    /\ \/ ApiIdle /\ result' # result
       \/ /\ th["api"].pc \in {"sc_chk", "v_chk", "r_chk"}
          /\ th["api"].op \in Commands /\ Moves("api")

\* C12: a command on an index out of range fails with IndexError; on a
\* valid index without an open session it fails with the not-connected
\* error of activate; on a valid index with a session and an inactive
\* channel it fails with the device-off error; and in each of these cases
\* no channel state changes and no Driver call is made.
CommandErrorsClassified ==
    [][CommandChecked =>
          LET i == result'.idx
          IN  /\ ~InRange(i) => result'.out = "IndexError"
              /\ (InRange(i) /\ ~Connected) => result'.out = "NotConnected"
              /\ (InRange(i) /\ Connected /\ ~devices[i].active)
                    => result'.out = "DeviceOff"
              /\ (~InRange(i) \/ ~Connected \/ ~devices[i].active)
                    => UNCHANGED <<devices, mfc_objs, serial_lock, bus>>]_vars

\* The Api methods of app.py (lines 38-83) call the manager and then return
\* self.mgr.snapshot(); none of them has a try block, so what the
\* presentation layer gets from a call that ended as r with the channels as
\* devs is the snapshot, or the exception the manager raised.
ApiReturn(r, devs) ==
    IF r.out = "ok"
    THEN [kind |-> "snapshot", error |-> "none",
          view |-> [i \in Dev |-> View(devs[i])]]
    ELSE [kind |-> "raised", error |-> r.out,
          view |-> [i \in Dev |-> View(DeviceState)]]

\* the calls of the control surface that change state
Mutating == Commands \cup {"connect", "disconnect", "activate", "deactivate"}

\* C13: every mutating control-surface call returns a snapshot, also when
\* the operation fails; a toggle(idx, on) whose activation fails returns a
\* snapshot in which the channel is inactive.
ApiAlwaysReturnsSnapshot ==
    [][\A op \in Mutating :
          CallEnds(op) =>
             LET ret == ApiReturn(result', devices')
             IN  /\ ret.kind = "snapshot"
                 /\ ret.view = [i \in Dev |-> View(devices'[i])]]_vars

\* C14: after every successful connect(name) one poll loop is running with
\* its stop signal cleared, and stays so while the session is open and no
\* connect or disconnect is in progress (so the active channels go on being
\* polled); and a connect(name) that fails to open the transport leaves no
\* session.
PollLoopRunsAfterConnect ==
    /\ []((Connected /\ th["api"].op \notin {"connect", "disconnect"})
            => (PollerAlive /\ ~poll_stop))
    /\ [][CallEnds("connect") =>
             IF result'.out = "ok"
             THEN serial_port' = "open" /\ th'["poller"].pc # "dead" /\ ~poll_stop'
             ELSE serial_port' = "none"]_vars

\* the positions of the five reads of the poll exchange
PollReads == {"p_r1", "p_r2", "p_r3", "p_r4", "p_r5"}

\* the poll exchange of a channel raises: the poller leaves the exchange
\* without the answers of the five reads
PollFails ==
    /\ th["poller"].pc \in PollReads /\ Moves("poller")
    /\ th'["poller"].pc \notin (PollReads \cup {"p_w1"})

LazyApplyKeepsSetpoint ==
    [][LET i == result.idx
           F == devices[i].full_scale_value
       IN  (/\ ApiIdle /\ th'["api"] = th["api"]
            /\ result.op = "send_consigne" /\ result.out = "ok"
            /\ result.x # <<>>
            /\ devices[i].active /\ F > 0
            /\ devices[i].consigne = Clamp(result.x[1], F))
           => /\ devices'[i].consigne = devices[i].consigne
              /\ (PollerWrites /\ th["poller"].idx = i)
                    => th["poller"].perc = Perc(Clamp(result.x[1], F), F)]_vars

\* disconnect() has returned and the api thread has made no call since
DisconnectDone ==
    ApiIdle /\ result.op = "disconnect" /\ result.out = "ok"

\* C17: disconnect() closes the transport only when no Driver exchange is
\* in progress; when it returns the poll loop has ended; and after it has
\* returned no exchange starts and no poll update is written to a channel.
DisconnectWaitsForExchanges ==
    [][/\ (th["api"].pc = "dc_close" /\ Moves("api"))
             => serial_lock = "free" /\ bus = NoCall
       /\ DisconnectReturns => th'["poller"].pc = "dead"
       /\ (DisconnectDone /\ th'["api"] = th["api"])
             => /\ devices' = devices
                /\ serial_lock' # "poller"]_vars

\* C18: every successful activate(i) ends with the stored setpoint 0, after
\* a valve write of command 0 (Regulating) and a setpoint write of 0
\* percent made by the activation: its send_consigne(i, 0.0) is reached
\* only through the read-back of that valve write, and returns after the
\* write of line 210, not at line 206.
ActivateSetsSafeDefault ==
    [][/\ (CallEnds("activate") /\ result'.out = "ok") =>
             /\ devices'[result'.idx].consigne = 0
             /\ th["api"].pc = "sc_hw"
             /\ th["api"].perc = 0
       /\ (th["api"].op = "activate" /\ th'["api"].pc = "sc_chk" /\ Moves("api")) =>
             /\ th["api"].pc = "v_read"
             /\ bus = [by |-> "api", idx |-> th["api"].idx, call |-> "set_vanne",
                       arg |-> ValveCmd("Regulation")]
             /\ ValveCmd("Regulation") = 0]_vars

\* C19: a poll of a channel appends exactly one entry to its measurement
\* history (the measured value) and exactly one to its setpoint history
\* (the stored setpoint), whatever the setpoint and the full scale: the
\* poller appends once at line 320 and once at line 321, and no other step
\* of the same _poll_one, the lazy apply of lines 324-327 included, changes
\* a history.
PollAppendsOnce ==
    [][LET i == th["poller"].idx
           d == devices[i]
       IN  /\ (th["poller"].pc = "p_h" /\ Moves("poller")) =>
                 /\ devices'[i].measurements = Appended(d.measurements, d.mesure[1])
                 /\ devices'[i].consigne_points = d.consigne_points
           /\ (th["poller"].pc = "p_hw" /\ Moves("poller")) =>
                 /\ devices'[i].consigne_points = th["poller"].buf
                 /\ devices'[i].measurements = d.measurements
           /\ (th["poller"].op = "lazy" /\ Moves("poller")) =>
                 /\ devices'[i].consigne_points = d.consigne_points
                 /\ devices'[i].measurements = d.measurements]_vars

\* the ramp time the claim expects for the argument x (tenths of a second):
\* 1.0 for a non-numeric x and for every x below 1.0, else x
RampTimeFloored(x) == IF ~x.num THEN 10 ELSE IF x.val < 10 THEN 10 ELSE x.val

\* C20: in every reachable state the ramp time of every channel is at
\* least 1.0 (10 tenths): it is the initial 1.0 or what configureRamp
\* stores, which is 1.0 for a non-numeric time and for every time below
\* 1.0, else the time given; and the duration written to the Driver at
\* line 250 is the stored value.
RampTimeAtLeastOne ==
    /\ \A i \in Dev :
          /\ devices[i].ramp_time_s >= 10
          /\ devices[i].ramp_time_s \in
                {10} \cup {RampTimeFloored(r[2]) : r \in InAll.ramp}
    /\ th["api"].pc = "r_lin" => Dv("api").ramp_time_s >= 10
====
